---- MODULE Spec2Model ----
(***************************************************************************)
(* swayblur, src/swayblur/blurManager.py: the wallpaper cache check, the   *)
(* generation of the blurred frames in a worker pool, the construction of  *)
(* the BlurManager, the subscription to the window manager's events and    *)
(* the event handler.                                                      *)
(*                                                                         *)
(* The cache directory outlives a run of the program, so the model runs    *)
(* the program again and again over one cache directory: a run is started  *)
(* with its own blur strength and animation duration, it may be killed at  *)
(* any point, and the wallpaper's source file may be replaced at any time. *)
(***************************************************************************)
EXTENDS Integers, Sequences, FiniteSets, TLC

\* ------------------------------------------------------------- bounds
\* blurStrength ranges over 1..MaxStrength, animationDuration over 1..MaxDuration.
MaxStrength == 2
MaxDuration == 2
\* At most MaxEvents events are received while the event loop is followed
\* write by write.
MaxEvents == 3
\* The schedule alone is computed for strengths 1..SchedMaxStrength and
\* durations 1..SchedMaxDuration.
SchedMaxStrength == 20
SchedMaxDuration == 5

\* ------------------------------------------------------ configuration
\* outputConfigs, in the dict's iteration order: two outputs showing the same
\* wallpaper and one output with no wallpaper set ('image' is empty).
OutputOrder == <<"o1", "o2", "o3">>
WallpaperPath == "w1"
Image(name) == IF name \in {"o1", "o2"} THEN WallpaperPath ELSE ""
Settings(name) == [filter |-> "Linear", anchor |-> "center", scalingMode |-> "fill"]
\* The configured outputs that have a wallpaper.
Wallpapered == {OutputOrder[i] : i \in {k \in 1..Len(OutputOrder) : Image(OutputOrder[k]) # ""}}
\* The output names the window manager's tree can report: the configured ones
\* and one that is in no configuration.
TreeOutputs == {"o1", "o2", "o3", "o4"}

\* ---------------------------------------------------------------- files
\* A file is its bytes and the part of its os.stat() signature that can differ
\* between two regular files: the size (of the bytes) and the modification time.
Contents == {"A", "B", "CC"}
Size(c) == IF c = "CC" THEN 2 ELSE 1
Mtimes == {"t1", "t2"}
NoFile == [exists |-> FALSE, content |-> "", mtime |-> ""]
WallpaperFile(c, m) == [exists |-> TRUE, content |-> c, mtime |-> m]
\* A frame written by the filter: complete, or cut short.
FrameFile == [exists |-> TRUE, content |-> "blurred", mtime |-> ""]
PartialFile == [exists |-> TRUE, content |-> "partial", mtime |-> ""]

\* hashlib.md5(s.encode()).hexdigest(): a function of the string, with no
\* collision among the strings of the model.
md5(s) == <<"md5", s>>
\* paths.cachedImagePath and paths.framePath: a path in the cache directory that
\* is a function of the identity, resp. of the identity and the blur level.
cachedImagePath(path, hash) == <<"wallpaper", hash>>
framePath(hash, frame) == <<"frame", hash, frame>>
\* paths.exists
exists(file) == file.exists

Levels == 0..MaxStrength
CachePaths ==
    {cachedImagePath(WallpaperPath, md5(WallpaperPath))}
        \cup {framePath(md5(WallpaperPath), l) : l \in Levels}

\* filecmp.cmp(f1, f2) with its default shallow=True: equal os.stat()
\* signatures (type, size, mtime) mean equal without a read; else different
\* sizes mean different; else the bytes are compared.
filecmp_cmp(f1, f2) ==
    IF Size(f1.content) = Size(f2.content) /\ f1.mtime = f2.mtime THEN TRUE
    ELSE IF Size(f1.content) # Size(f2.content) THEN FALSE
    ELSE f1.content = f2.content

\* Whether filecmp.cmp(f1, f2) reads the files: only when the signatures differ
\* and the sizes are equal.
filecmp_reads(f1, f2) ==
    Size(f1.content) = Size(f2.content) /\ f1.mtime # f2.mtime

\* shutil.copy(src, dst): the bytes of src, written at time m.
shutil_copy(src, m) == WallpaperFile(src.content, m)

VARIABLES
    source,             \* the file at the wallpaper's source path
    cacheDir,           \* the cache directory: path -> file
    pc,                 \* where the process is
    blurStrength,       \* BlurManager.__init__'s arguments in this run
    animationDuration,
    animationFrames,    \* the schedule of blur levels (lines 40-42)
    outputs,            \* self.outputs: name -> Output
    idx,                \* the position of the loop over outputConfigs
    jobs,               \* the tasks of the running pool.starmap
    handlers,           \* the event kinds handleBlur is subscribed to
    ret,                \* what the latest verifyWallpaperCache call returned
    streak,             \* history: calls in a row since one that found no cached copy
    checked,            \* history: outputs whose cache check and generation are over
    filterFailed,       \* history: a filter invocation of this run failed
    found,              \* history: how this run's cache checks found the source
    event,              \* the event handled last and the tree it found
    before,             \* history: the call dispatched on its output before it
    calls,              \* the Output methods the last event's handler invoked
    sink,               \* the display sink writes of the last event's handler
    lastCall,           \* history: per output, the call dispatched most recently
    log,                \* what the last handler logged
    pending,            \* the events received and not yet handed to the handler
    running,            \* the handler activations that have not returned
    written,            \* for each display-sink write so far, the event it is for
    received            \* the number of events received

vars == <<source, cacheDir, pc, blurStrength, animationDuration, animationFrames,
          outputs, idx, jobs, handlers, ret, streak, checked, filterFailed, found,
          event, before, calls, sink, lastCall, log,
          pending, running, written, received>>

diskVars == <<source, cacheDir>>
loopVars == <<pending, running, written, received>>
eventVars == <<event, before, calls, sink, lastCall, log, loopVars>>

NoOutputs == [n \in {} |-> 0]
NoEvent == [kind |-> "", output |-> "", empty |-> FALSE]
NoCalls == [n \in TreeOutputs |-> "none"]
Terminated == pc \in {"stopped", "crashed"}

\* --------------------------------------------------- BlurManager.__init__
Schedule_ZeroBased(strength, duration) ==
    [i \in 1..duration |-> (i - 1) * (strength \div duration)]

\* lines 40-42: (i + 1) * (blurStrength // animationDuration) for i in range(N)
Schedule(strength, duration) ==
    [i \in 1..duration |-> i * (strength \div duration)]

imageHash(name) == md5(Image(name))
cachedImage(name) == cachedImagePath(Image(name), imageHash(name))

\* Output with a cached image path of its own for each output name.
Output_OwnCopy(name, frames) ==
    [name |-> name,
     wallpaper |-> cachedImagePath(name, imageHash(name)),
     frames |-> [i \in 1..Len(frames) |-> framePath(md5(name), frames[i])],
     settings |-> Settings(name)]

\* lines 55-64: the Output object of a configured output
Output(name, frames) ==
    [name |-> name,
     wallpaper |-> cachedImage(name),
     frames |-> [i \in 1..Len(frames) |-> framePath(imageHash(name), frames[i])],
     settings |-> Settings(name)]

\* verifyWallpaperCache copying the source over the cached copy on a hit too.
verifyWallpaperCache_CopyAlways(wallpaperPath, wallpaperHash, m, readable) ==
    LET cachedWallpaper == cachedImagePath(wallpaperPath, wallpaperHash) IN
    IF ~exists(source) \/ ~readable
    THEN [raised |-> TRUE, ret |-> "none", dir |-> cacheDir]
    ELSE IF exists(cacheDir[cachedWallpaper])
            /\ filecmp_cmp(source, cacheDir[cachedWallpaper])
    THEN [raised |-> FALSE, ret |-> "True",
          dir |-> [cacheDir EXCEPT ![cachedWallpaper] = shutil_copy(source, m)]]
    ELSE [raised |-> FALSE, ret |-> "False",
          dir |-> [cacheDir EXCEPT ![cachedWallpaper] = shutil_copy(source, m)]]

\* verifyWallpaperCache without its "return True": it falls through to the copy.
verifyWallpaperCache_NoReturn(wallpaperPath, wallpaperHash, m, readable) ==
    LET cachedWallpaper == cachedImagePath(wallpaperPath, wallpaperHash) IN
    IF ~exists(source) \/ ~readable
    THEN [raised |-> TRUE, ret |-> "none", dir |-> cacheDir]
    ELSE [raised |-> FALSE, ret |-> "False",
          dir |-> [cacheDir EXCEPT ![cachedWallpaper] = shutil_copy(source, m)]]

\* lines 23-32: what verifyWallpaperCache returns and the cache directory it
\* leaves, the copy being written at time m. A missing source makes
\* filecmp.cmp (os.stat) or shutil.copy raise FileNotFoundError. A source the
\* process may not read (readable is false) makes them raise PermissionError
\* where they open it: filecmp.cmp when it compares the bytes, shutil.copy
\* always.
verifyWallpaperCache(wallpaperPath, wallpaperHash, m, readable) ==
    LET cachedWallpaper == cachedImagePath(wallpaperPath, wallpaperHash) IN
    IF ~exists(source)
    THEN [raised |-> TRUE, ret |-> "none", dir |-> cacheDir]
    ELSE IF exists(cacheDir[cachedWallpaper]) /\ ~readable
            /\ filecmp_reads(source, cacheDir[cachedWallpaper])
    THEN [raised |-> TRUE, ret |-> "none", dir |-> cacheDir]
    ELSE IF exists(cacheDir[cachedWallpaper])
            /\ filecmp_cmp(source, cacheDir[cachedWallpaper])
    THEN [raised |-> FALSE, ret |-> "True", dir |-> cacheDir]
    ELSE IF ~readable
    THEN [raised |-> TRUE, ret |-> "none", dir |-> cacheDir]
    ELSE [raised |-> FALSE, ret |-> "False",
          dir |-> [cacheDir EXCEPT ![cachedWallpaper] = shutil_copy(source, m)]]

\* No event has been handled.
ResetEvents ==
    /\ event' = NoEvent
    /\ before' = "none"
    /\ calls' = <<>>
    /\ sink' = <<>>
    /\ lastCall' = NoCalls
    /\ log' = ""
    /\ pending' = <<>>
    /\ running' = {}
    /\ written' = <<>>
    /\ received' = 0

\* lines 36-42: a run of the program starts constructing the BlurManager.
StartRun(strength, duration) ==
    /\ Terminated
    /\ pc' = "init"
    /\ blurStrength' = strength
    /\ animationDuration' = duration
    /\ animationFrames' = Schedule(strength, duration)
    /\ outputs' = NoOutputs
    /\ idx' = 1
    /\ jobs' = <<>>
    /\ handlers' = {}
    /\ checked' = {}
    /\ filterFailed' = FALSE
    /\ found' = ""
    /\ ResetEvents
    /\ UNCHANGED <<diskVars, ret, streak>>

\* What the memory of a process that is gone holds.
Gone(how) ==
    /\ pc' = how
    /\ blurStrength' = 0
    /\ animationDuration' = 0
    /\ animationFrames' = <<>>
    /\ outputs' = NoOutputs
    /\ idx' = 0
    /\ jobs' = <<>>
    /\ handlers' = {}
    /\ checked' = {}
    /\ filterFailed' = FALSE

\* The task list with the position in the schedule passed as the blur level.
starmapArgs_LevelByIndex(name, frames) ==
    [i \in 1..Len(frames) |->
       [input |-> cachedImage(name),
        output |-> framePath(imageHash(name), frames[i]),
        blurLevel |-> i,
        state |-> "queued"]]

\* lines 70-74: the argument list of pool.starmap, one task
\* [cachedImage, framePath(imageHash, frame), frame] for each frame of the
\* schedule, none of them started.
starmapArgs(name, frames) ==
    [i \in 1..Len(frames) |->
       [input |-> cachedImage(name),
        output |-> framePath(imageHash(name), frames[i]),
        blurLevel |-> frames[i],
        state |-> "queued"]]

\* lines 45-77, one iteration of the loop over outputConfigs.
InitOutput ==
    /\ pc = "init"
    /\ idx \in 1..Len(OutputOrder)
    /\ LET name == OutputOrder[idx] IN
       \/ \* lines 48-50: no wallpaper set
          /\ Image(name) = ""
          /\ idx' = idx + 1
          /\ UNCHANGED <<source, cacheDir, pc, blurStrength, animationDuration,
                         animationFrames, outputs, jobs, handlers, ret, streak,
                         checked, filterFailed, eventVars, found>>
       \/ /\ Image(name) # ""
          /\ \E m \in Mtimes, readable \in BOOLEAN :
               LET v == verifyWallpaperCache(Image(name), imageHash(name), m, readable)
                   cold == ~exists(cacheDir[cachedImage(name)])
                   how == IF found \in {"missing", "unreadable"} THEN found
                          ELSE IF ~exists(source) THEN "missing"
                          ELSE IF ~readable THEN "unreadable" ELSE "ok"
               IN
               \/ \* the source is missing: the exception leaves __init__
                  /\ v.raised
                  /\ Gone("crashed")
                  /\ ret' = "none"
                  /\ streak' = 0
                  /\ found' = how
                  /\ UNCHANGED <<diskVars, eventVars>>
               \/ \* lines 76-77: cached, nothing is generated
                  /\ ~v.raised /\ v.ret = "True"
                  /\ outputs' = (name :> Output(name, animationFrames)) @@ outputs
                  /\ cacheDir' = v.dir
                  /\ ret' = v.ret
                  /\ streak' = IF cold THEN 1 ELSE IF streak = 1 THEN 2 ELSE 0
                  /\ idx' = idx + 1
                  /\ checked' = checked \cup {name}
                  /\ found' = how
                  /\ UNCHANGED <<source, pc, blurStrength, animationDuration,
                                 animationFrames, jobs, handlers, filterFailed,
                                 eventVars>>
               \/ \* lines 68-74: the frames are handed to the pool
                  /\ ~v.raised /\ v.ret = "False"
                  /\ outputs' = (name :> Output(name, animationFrames)) @@ outputs
                  /\ cacheDir' = v.dir
                  /\ ret' = v.ret
                  /\ streak' = IF cold THEN 1 ELSE IF streak = 1 THEN 2 ELSE 0
                  /\ pc' = "generate"
                  /\ jobs' = starmapArgs(name, animationFrames)
                  /\ found' = how
                  /\ UNCHANGED <<source, blurStrength, animationDuration,
                                 animationFrames, idx, handlers, checked,
                                 filterFailed, eventVars>>

\* lines 13-20 in a pool worker: genBlurredImage for task j. The filter writes
\* the frame ("ok"), fails leaving the path as it was ("fail") or a partial file
\* ("partial"): subprocess.run raises for neither. With no filter executable
\* ("notfound") exit() raises SystemExit in the worker: the worker process ends
\* and the task's result never reaches the pool.
genBlurredImage(j, outcome) ==
    /\ pc = "generate"
    /\ j \in 1..Len(jobs)
    /\ jobs[j].state = "queued"
    /\ \/ /\ outcome = "ok"
          /\ cacheDir' = [cacheDir EXCEPT ![jobs[j].output] = FrameFile]
          /\ jobs' = [jobs EXCEPT ![j].state = "done"]
          /\ UNCHANGED filterFailed
       \/ /\ outcome = "fail"
          /\ jobs' = [jobs EXCEPT ![j].state = "done"]
          /\ filterFailed' = TRUE
          /\ UNCHANGED cacheDir
       \/ /\ outcome = "partial"
          /\ cacheDir' = [cacheDir EXCEPT ![jobs[j].output] = PartialFile]
          /\ jobs' = [jobs EXCEPT ![j].state = "done"]
          /\ filterFailed' = TRUE
       \/ /\ outcome = "notfound"
          /\ jobs' = [jobs EXCEPT ![j].state = "lost"]
          /\ UNCHANGED <<cacheDir, filterFailed>>
    /\ UNCHANGED <<source, pc, blurStrength, animationDuration, animationFrames,
                   outputs, idx, handlers, ret, streak, checked, eventVars, found>>

\* lines 70-75: pool.starmap returns once every task has a result.
PoolJoin ==
    /\ pc = "generate"
    /\ \A j \in 1..Len(jobs) : jobs[j].state = "done"
    /\ pc' = "init"
    /\ jobs' = <<>>
    /\ checked' = checked \cup {OutputOrder[idx]}
    /\ idx' = idx + 1
    /\ UNCHANGED <<diskVars, blurStrength, animationDuration, animationFrames,
                   outputs, handlers, ret, streak, filterFailed, eventVars, found>>

\* The loop left after its first iteration.
LoopDone_Early == idx > 1

\* line 45: the loop over outputConfigs is exhausted, __init__ returns.
LoopDone == idx > Len(OutputOrder)

InitReturn ==
    /\ pc = "init"
    /\ LoopDone
    /\ pc' = "constructed"
    /\ UNCHANGED <<diskVars, blurStrength, animationDuration, animationFrames,
                   outputs, idx, jobs, handlers, ret, streak, checked,
                   filterFailed, eventVars, found>>

\* lines 80-86: start subscribes handleBlur and enters SWAY.main().
Subscribed == {"window::new", "window::close", "window::move", "workspace::focus"}

start ==
    /\ pc = "constructed"
    /\ handlers' = Subscribed
    /\ pc' = "listening"
    /\ UNCHANGED <<diskVars, blurStrength, animationDuration, animationFrames,
                   outputs, idx, jobs, ret, streak, checked, filterFailed,
                   eventVars, found>>

\* ------------------------------------------------------------ the Output
\* Output.blur() and Output.unblur(): the frames handed to the display sink one
\* by one, first to last, resp. last to first, with the output's settings.
SinkWrite(o, i) == [output |-> o.name, image |-> o.frames[i], settings |-> o.settings]
Output_blur(o) == [i \in 1..Len(o.frames) |-> SinkWrite(o, i)]
Output_unblur(o) == [i \in 1..Len(o.frames) |-> SinkWrite(o, Len(o.frames) + 1 - i)]

\* ------------------------------------------------- BlurManager.handleBlur
\* The two branches swapped.
Target_Swapped(isEmpty) == IF isEmpty THEN "blur" ELSE "unblur"

\* lines 95-98: the method the handler picks. focusedWindow == focusedWorkspace
\* holds when the focused workspace has no window.
Target(isEmpty) == IF isEmpty THEN "unblur" ELSE "blur"

\* handleBlur without its except clause: the KeyError leaves the handler and
\* SWAY.main().
handleBlur_NoExcept(kind, focusedOutputName, isEmpty) ==
    /\ pc = "listening"
    /\ kind \in handlers
    /\ event' = [kind |-> kind, output |-> focusedOutputName, empty |-> isEmpty]
    /\ before' = lastCall[focusedOutputName]
    /\ \/ /\ focusedOutputName \in DOMAIN outputs
          /\ calls' = <<[output |-> focusedOutputName, method |-> Target(isEmpty)]>>
          /\ sink' = IF Target(isEmpty) = "unblur"
                     THEN Output_unblur(outputs[focusedOutputName])
                     ELSE Output_blur(outputs[focusedOutputName])
          /\ lastCall' = [lastCall EXCEPT ![focusedOutputName] = Target(isEmpty)]
          /\ log' = ""
          /\ UNCHANGED pc
       \/ /\ focusedOutputName \notin DOMAIN outputs
          /\ calls' = <<>>
          /\ sink' = <<>>
          /\ log' = ""
          /\ pc' = "crashed"
          /\ UNCHANGED lastCall
    /\ UNCHANGED <<diskVars, blurStrength, animationDuration, animationFrames,
                   outputs, idx, jobs, handlers, ret, streak, checked, filterFailed,
                   found, loopVars>>

\* handleBlur skipping a call equal to the output's most recent one.
handleBlur_Dedup(kind, focusedOutputName, isEmpty) ==
    /\ pc = "listening"
    /\ kind \in handlers
    /\ event' = [kind |-> kind, output |-> focusedOutputName, empty |-> isEmpty]
    /\ before' = lastCall[focusedOutputName]
    /\ \/ /\ focusedOutputName \in DOMAIN outputs
          /\ lastCall[focusedOutputName] # Target(isEmpty)
          /\ calls' = <<[output |-> focusedOutputName, method |-> Target(isEmpty)]>>
          /\ sink' = IF Target(isEmpty) = "unblur"
                     THEN Output_unblur(outputs[focusedOutputName])
                     ELSE Output_blur(outputs[focusedOutputName])
          /\ lastCall' = [lastCall EXCEPT ![focusedOutputName] = Target(isEmpty)]
          /\ log' = ""
       \/ /\ focusedOutputName \in DOMAIN outputs
          /\ lastCall[focusedOutputName] = Target(isEmpty)
          /\ calls' = <<>>
          /\ sink' = <<>>
          /\ log' = ""
          /\ UNCHANGED lastCall
       \/ /\ focusedOutputName \notin DOMAIN outputs
          /\ calls' = <<>>
          /\ sink' = <<>>
          /\ log' = "is not an Output object"
          /\ UNCHANGED lastCall
    /\ UNCHANGED <<diskVars, pc, blurStrength, animationDuration, animationFrames,
                   outputs, idx, jobs, handlers, ret, streak, checked, filterFailed,
                   found, loopVars>>

\* handleBlur registering the focused output when it is no key of self.outputs.
handleBlur_Registers(kind, focusedOutputName, isEmpty) ==
    /\ pc = "listening"
    /\ kind \in handlers
    /\ event' = [kind |-> kind, output |-> focusedOutputName, empty |-> isEmpty]
    /\ before' = lastCall[focusedOutputName]
    /\ \/ /\ focusedOutputName \in DOMAIN outputs
          /\ calls' = <<[output |-> focusedOutputName, method |-> Target(isEmpty)]>>
          /\ sink' = IF Target(isEmpty) = "unblur"
                     THEN Output_unblur(outputs[focusedOutputName])
                     ELSE Output_blur(outputs[focusedOutputName])
          /\ lastCall' = [lastCall EXCEPT ![focusedOutputName] = Target(isEmpty)]
          /\ log' = ""
          /\ UNCHANGED outputs
       \/ /\ focusedOutputName \notin DOMAIN outputs
          /\ calls' = <<>>
          /\ sink' = <<>>
          /\ log' = "is not an Output object"
          /\ outputs' = [n \in DOMAIN outputs \cup {focusedOutputName} |->
                           IF n \in DOMAIN outputs THEN outputs[n]
                           ELSE Output(n, animationFrames)]
          /\ UNCHANGED lastCall
    /\ UNCHANGED <<diskVars, pc, blurStrength, animationDuration, animationFrames,
                   idx, jobs, handlers, ret, streak, checked, filterFailed,
                   found, loopVars>>

\* handleBlur acting on the first configured output, whichever is focused.
handleBlur_FirstOutput(kind, focusedOutputName, isEmpty) ==
    /\ pc = "listening"
    /\ kind \in handlers
    /\ event' = [kind |-> kind, output |-> focusedOutputName, empty |-> isEmpty]
    /\ before' = lastCall[focusedOutputName]
    /\ \/ /\ focusedOutputName \in DOMAIN outputs
          /\ calls' = <<[output |-> OutputOrder[1], method |-> Target(isEmpty)]>>
          /\ sink' = IF Target(isEmpty) = "unblur"
                     THEN Output_unblur(outputs[OutputOrder[1]])
                     ELSE Output_blur(outputs[OutputOrder[1]])
          /\ lastCall' = [lastCall EXCEPT ![OutputOrder[1]] = Target(isEmpty)]
          /\ log' = ""
       \/ /\ focusedOutputName \notin DOMAIN outputs
          /\ calls' = <<>>
          /\ sink' = <<>>
          /\ log' = "is not an Output object"
          /\ UNCHANGED lastCall
    /\ UNCHANGED <<diskVars, pc, blurStrength, animationDuration, animationFrames,
                   outputs, idx, jobs, handlers, ret, streak, checked, filterFailed,
                   found, loopVars>>

\* lines 89-100: an event of a subscribed kind arrives; the tree reports the
\* focused workspace's output and whether the workspace is empty. A name that
\* is no key of self.outputs raises KeyError, which is caught and logged.
handleBlur(kind, focusedOutputName, isEmpty) ==
    /\ pc = "listening"
    /\ kind \in handlers
    /\ event' = [kind |-> kind, output |-> focusedOutputName, empty |-> isEmpty]
    /\ before' = lastCall[focusedOutputName]
    /\ \/ /\ focusedOutputName \in DOMAIN outputs
          /\ calls' = <<[output |-> focusedOutputName, method |-> Target(isEmpty)]>>
          /\ sink' = IF Target(isEmpty) = "unblur"
                     THEN Output_unblur(outputs[focusedOutputName])
                     ELSE Output_blur(outputs[focusedOutputName])
          /\ lastCall' = [lastCall EXCEPT ![focusedOutputName] = Target(isEmpty)]
          /\ log' = ""
       \/ /\ focusedOutputName \notin DOMAIN outputs
          /\ calls' = <<>>
          /\ sink' = <<>>
          /\ log' = "is not an Output object"
          /\ UNCHANGED lastCall
    /\ UNCHANGED <<diskVars, pc, blurStrength, animationDuration, animationFrames,
                   outputs, idx, jobs, handlers, ret, streak, checked, filterFailed,
                   found, loopVars>>

\* lines 89-91 when the tree has no focused node: find_focused() returns None
\* and None.workspace() raises AttributeError before the try statement. Nothing
\* in handleBlur or start catches it: it leaves the handler and SWAY.main().
handleBlurNoFocus(kind) ==
    /\ pc = "listening"
    /\ kind \in handlers
    /\ event' = [kind |-> kind, output |-> "", empty |-> FALSE]
    /\ before' = "none"
    /\ calls' = <<>>
    /\ sink' = <<>>
    /\ log' = "AttributeError"
    /\ pc' = "crashed"
    /\ UNCHANGED <<diskVars, blurStrength, animationDuration, animationFrames,
                   outputs, idx, jobs, handlers, ret, streak, checked, filterFailed,
                   found, lastCall, loopVars>>

\* ------------------------------------------------------- the environment
\* The process is killed from outside.
Kill ==
    /\ ~Terminated
    /\ Gone("stopped")
    /\ ResetEvents
    /\ found' = ""
    /\ UNCHANGED <<diskVars, ret, streak>>

\* The wallpaper's source file is replaced (any bytes, any modification time:
\* a copy that keeps timestamps, a touch) or removed.
ReplaceSource(file) ==
    /\ file # source
    /\ source' = file
    /\ streak' = IF file.exists /\ source.exists /\ file.content = source.content
                 THEN streak ELSE 0
    /\ UNCHANGED <<cacheDir, pc, blurStrength, animationDuration, animationFrames,
                   outputs, idx, jobs, handlers, ret, checked, filterFailed,
                   eventVars, found>>

SourceFiles == {NoFile} \cup {WallpaperFile(c, m) : c \in Contents, m \in Mtimes}
Outcomes == {"ok", "fail", "partial", "notfound"}

Init ==
    /\ source \in SourceFiles
    /\ cacheDir = [p \in CachePaths |-> NoFile]
    /\ pc = "stopped"
    /\ blurStrength = 0
    /\ animationDuration = 0
    /\ animationFrames = <<>>
    /\ outputs = NoOutputs
    /\ idx = 0
    /\ jobs = <<>>
    /\ handlers = {}
    /\ ret = "none"
    /\ streak = 0
    /\ checked = {}
    /\ filterFailed = FALSE
    /\ found = ""
    /\ event = NoEvent
    /\ before = "none"
    /\ calls = <<>>
    /\ sink = <<>>
    /\ lastCall = NoCalls
    /\ log = ""
    /\ pending = <<>>
    /\ running = {}
    /\ written = <<>>
    /\ received = 0

Next ==
    \/ \E s \in 1..MaxStrength, d \in 1..MaxDuration : StartRun(s, d)
    \/ InitOutput
    \/ \E j \in 1..MaxDuration, o \in Outcomes : genBlurredImage(j, o)
    \/ PoolJoin
    \/ InitReturn
    \/ start
    \/ Kill
    \/ \E f \in SourceFiles : ReplaceSource(f)

Spec == Init /\ [][Next]_vars

\* ------------------------------------------- the event loop, write by write
\* SWAY.main() (line 86) reads the events off the connection in the order they
\* arrive and calls the subscribed handler for each; handleBlur (lines 89-100)
\* calls blur() or unblur(), which write one frame after the other to the
\* display sink and return after the last. Here a handler activation is
\* followed through its writes one at a time.

\* An event of a subscribed kind arrives on the connection.
Receive(kind) ==
    /\ pc = "listening"
    /\ kind \in handlers
    /\ received < MaxEvents
    /\ received' = received + 1
    /\ pending' = Append(pending, received + 1)
    /\ UNCHANGED <<diskVars, pc, blurStrength, animationDuration, animationFrames,
                   outputs, idx, jobs, handlers, ret, streak, checked, filterFailed,
                   found, event, before, calls, sink, lastCall, log, running, written>>

\* The writes of a handler activation that finds focusedOutputName focused.
HandlerWrites(focusedOutputName, isEmpty) ==
    IF focusedOutputName \notin DOMAIN outputs THEN <<>>
    ELSE IF Target(isEmpty) = "unblur"
    THEN Output_unblur(outputs[focusedOutputName])
    ELSE Output_blur(outputs[focusedOutputName])

\* The loop calling the handler for the next event while an earlier
\* activation has not returned.
Dispatch_NoWait(focusedOutputName, isEmpty) ==
    /\ pc = "listening"
    /\ pending # <<>>
    /\ running' = running \cup {[id |-> Head(pending),
                                  left |-> HandlerWrites(focusedOutputName, isEmpty)]}
    /\ pending' = Tail(pending)
    /\ UNCHANGED <<diskVars, pc, blurStrength, animationDuration, animationFrames,
                   outputs, idx, jobs, handlers, ret, streak, checked, filterFailed,
                   found, event, before, calls, sink, lastCall, log, written, received>>

\* line 86: SWAY.main() calls the handler for the oldest pending event once
\* the previous call has returned; the handler reads the tree as it is then.
Dispatch(focusedOutputName, isEmpty) ==
    /\ pc = "listening"
    /\ pending # <<>>
    /\ running = {}
    /\ running' = running \cup {[id |-> Head(pending),
                                  left |-> HandlerWrites(focusedOutputName, isEmpty)]}
    /\ pending' = Tail(pending)
    /\ UNCHANGED <<diskVars, pc, blurStrength, animationDuration, animationFrames,
                   outputs, idx, jobs, handlers, ret, streak, checked, filterFailed,
                   found, event, before, calls, sink, lastCall, log, written, received>>

\* blur()/unblur() of an activation makes its next display-sink write.
SinkStep ==
    /\ pc = "listening"
    /\ \E r \in running :
         /\ r.left # <<>>
         /\ written' = Append(written, r.id)
         /\ running' = (running \ {r}) \cup {[r EXCEPT !.left = Tail(r.left)]}
    /\ UNCHANGED <<diskVars, pc, blurStrength, animationDuration, animationFrames,
                   outputs, idx, jobs, handlers, ret, streak, checked, filterFailed,
                   found, event, before, calls, sink, lastCall, log, pending, received>>

\* lines 95-100: blur()/unblur() has made its last write, or the KeyError has
\* been logged; handleBlur returns to the loop.
Return ==
    /\ pc = "listening"
    /\ \E r \in running :
         /\ r.left = <<>>
         /\ running' = running \ {r}
    /\ UNCHANGED <<diskVars, pc, blurStrength, animationDuration, animationFrames,
                   outputs, idx, jobs, handlers, ret, streak, checked, filterFailed,
                   found, event, before, calls, sink, lastCall, log, pending, written,
                   received>>

\* ------------------------------------------- a process from start to end
\* Construction, subscription and event handling in one behaviour, over one
\* wallpaper source that is not replaced.

LifeInit == Init /\ source = WallpaperFile("A", "t1")

LifeNext ==
    \/ \E s \in 1..MaxStrength, d \in 1..MaxDuration : StartRun(s, d)
    \/ InitOutput
    \/ \E j \in 1..MaxDuration, o \in Outcomes : genBlurredImage(j, o)
    \/ PoolJoin
    \/ InitReturn
    \/ start
    \/ \E k \in Subscribed, o \in TreeOutputs, e \in BOOLEAN : handleBlur(k, o, e)
    \/ \E k \in Subscribed : handleBlurNoFocus(k)
    \/ Kill

LifeSpec == LifeInit /\ [][LifeNext]_vars

\* --------------------------------------------------- the schedule alone
\* Runs that are started and killed, over the wider range of settings.

SchedNext ==
    \/ \E s \in 1..SchedMaxStrength, d \in 1..SchedMaxDuration : StartRun(s, d)
    \/ Kill

SchedSpec == Init /\ [][SchedNext]_vars

\* ------------------------------------------------- the event phase alone
\* The state start() finds after a construction from an empty cache directory
\* in which every filter invocation succeeded.

EventInit ==
    \E s \in 1..MaxStrength, d \in 1..MaxDuration, c \in Contents, m \in Mtimes :
        /\ source = WallpaperFile(c, m)
        /\ cacheDir = [p \in CachePaths |->
                         IF p = cachedImagePath(WallpaperPath, md5(WallpaperPath))
                         THEN WallpaperFile(c, m)
                         ELSE IF \E i \in 1..d :
                                   p = framePath(md5(WallpaperPath), Schedule(s, d)[i])
                         THEN FrameFile
                         ELSE NoFile]
        /\ pc = "constructed"
        /\ blurStrength = s
        /\ animationDuration = d
        /\ animationFrames = Schedule(s, d)
        /\ outputs = [n \in Wallpapered |-> Output(n, Schedule(s, d))]
        /\ idx = Len(OutputOrder) + 1
        /\ jobs = <<>>
        /\ handlers = {}
        /\ ret = "True"
        /\ streak = 2
        /\ checked = Wallpapered
        /\ filterFailed = FALSE
        /\ found = "ok"
        /\ event = NoEvent
        /\ before = "none"
        /\ calls = <<>>
        /\ sink = <<>>
        /\ lastCall = NoCalls
        /\ log = ""
        /\ pending = <<>>
        /\ running = {}
        /\ written = <<>>
        /\ received = 0

EventNext ==
    \/ start
    \/ \E k \in Subscribed, o \in TreeOutputs, e \in BOOLEAN : handleBlur(k, o, e)
    \/ \E k \in Subscribed : handleBlurNoFocus(k)
    \/ Kill

EventSpec == EventInit /\ [][EventNext]_vars

\* The event loop followed write by write, from the same states.
LoopNext ==
    \/ start
    \/ \E k \in Subscribed : Receive(k)
    \/ \E o \in TreeOutputs, e \in BOOLEAN : Dispatch(o, e)
    \/ SinkStep
    \/ Return

LoopSpec == EventInit /\ [][LoopNext]_vars
\* ================================================================ claims
CachedCopy == cacheDir[cachedImagePath(WallpaperPath, md5(WallpaperPath))]
FramesOnDisk ==
    \A n \in DOMAIN outputs :
        \A i \in 1..Len(outputs[n].frames) : exists(cacheDir[outputs[n].frames[i]])

\* C1: whatever earlier runs left in the cache directory, once start has
\* subscribed every frame path of every Output in the mapping exists on disk
\* (stated for the runs in which no filter invocation failed).
C1_FramesExistAtSubscribe ==
    (handlers # {} /\ ~filterFailed) => FramesOnDisk

\* C2: of two calls of verifyWallpaperCache in a row, the first finding no
\* cached copy and the source content unchanged in between, the first returns
\* False and the second returns True and starts no generation.
C2_MissThenHit ==
    /\ streak = 1 => ret = "False"
    /\ streak = 2 => (ret = "True" /\ pc # "generate" /\ jobs = <<>>)

C2_Witness == streak = 2 /\ ret = "True" /\ pc = "init"

\* A step in which verifyWallpaperCache is called and returns.
VerifyReturns ==
    /\ pc = "init"
    /\ idx \in 1..Len(OutputOrder)
    /\ Image(OutputOrder[idx]) # ""
    /\ pc' = "generate" \/ (pc' = "init" /\ idx' = idx + 1)

\* C3: a call of verifyWallpaperCache that finds a cached copy whose content
\* differs from the source's returns False and leaves the cached copy
\* byte-identical to the source.
C3_Invalidation ==
    [][(VerifyReturns /\ exists(CachedCopy) /\ CachedCopy.content # source.content)
          => (ret' = "False" /\ CachedCopy'.content = source.content)]_vars

\* C4: the animation schedule of a run is strictly increasing, has exactly
\* animationDuration elements, and its last element is at most blurStrength.
C4_ScheduleIncreasing ==
    ~Terminated =>
        /\ Len(animationFrames) = animationDuration
        /\ \A i \in 1..(Len(animationFrames) - 1) :
               animationFrames[i] < animationFrames[i + 1]
        /\ animationFrames[Len(animationFrames)] <= blurStrength

\* C5: no handler is registered and the listen loop is not entered before the
\* cache check and the frame generation are over for every configured output
\* that has a wallpaper.
C5_SubscribeAfterSetup ==
    (handlers # {} \/ pc = "listening") =>
        /\ checked = Wallpapered
        /\ Wallpapered \subseteq DOMAIN outputs
        /\ jobs = <<>>

C5_Witness == pc = "listening" /\ handlers = Subscribed /\ checked = {"o1", "o2"}

\* C6: an event whose focused workspace is on an output of the mapping makes
\* handleBlur invoke exactly one call on that output: unblur() when the
\* workspace is empty, blur() otherwise.
C6_DispatchByEmptiness ==
    (event # NoEvent /\ event.output \in DOMAIN outputs) =>
        calls = <<[output |-> event.output,
                   method |-> IF event.empty THEN "unblur" ELSE "blur"]>>

C6_Witness ==
    /\ event # NoEvent /\ event.output = "o2" /\ event.empty
    /\ calls = <<[output |-> "o2", method |-> "unblur"]>>

\* C7: an event whose resolved output name is no key of the mapping leaves handleBlur
\* without an exception and without a display sink write, and the loop keeps
\* listening.
C7_UnknownOutputTolerated ==
    (event # NoEvent /\ event.output \in TreeOutputs
        /\ event.output \notin DOMAIN outputs) =>
        /\ pc = "listening"
        /\ handlers = Subscribed
        /\ calls = <<>>
        /\ sink = <<>>

C7_Witness ==
    /\ event # NoEvent /\ event.output = "o4" /\ pc = "listening"
    /\ log = "is not an Output object"

\* C8 as stated: no call is dispatched on an output whose most recently
\* dispatched call was the same one.
C8_Deduplicated ==
    calls # <<>> => before # calls[1].method

\* C8 as amended: an event for an output of the mapping whose most recently
\* dispatched call already was the one the event asks for dispatches it again,
\* and the call replays every frame of the schedule.
C8_ReplaysRedundant ==
    (event # NoEvent /\ event.output \in DOMAIN outputs
        /\ before = (IF event.empty THEN "unblur" ELSE "blur")) =>
        /\ calls = <<[output |-> event.output, method |-> before]>>
        /\ Len(sink) = animationDuration

C8_Witness ==
    /\ event # NoEvent /\ before = "blur" /\ calls # <<>>
    /\ calls[1].method = "blur" /\ Len(sink) = animationDuration

\* The steps the program takes by itself while setting up.
SetupStep ==
    \/ InitOutput
    \/ \E j \in 1..MaxDuration, o \in Outcomes : genBlurredImage(j, o)
    \/ PoolJoin
    \/ InitReturn
    \/ start

\* C9: once a pool worker has found the filter executable missing, the process
\* has subscribed to nothing and either is gone or still has a step to take
\* towards its end (it is not stuck).
C9_MissingFilterTerminates ==
    (\E j \in 1..Len(jobs) : jobs[j].state = "lost") =>
        /\ handlers = {}
        /\ pc # "listening"
        /\ Terminated \/ ENABLED SetupStep

\* C10: a run in which a filter invocation failed never subscribes and never
\* enters the listen loop.
C10_FailureAbortsSetup ==
    filterFailed => (handlers = {} /\ pc # "listening")
\* C11: whatever happens while an event is handled, the loop goes on: after an
\* event has been handled the process is still listening with its handlers.
C11_LoopSurvivesErrors ==
    event # NoEvent => (pc = "listening" /\ handlers = Subscribed)
\* C12: a run in which a cache check found the wallpaper's source missing or
\* unreadable, with or without a cached copy, does not finish construction and
\* subscribes to nothing.
C12_BrokenSourceFailsConstruction ==
    found \in {"missing", "unreadable"} =>
        (pc \notin {"constructed", "listening"} /\ handlers = {})
\* C13: within one output's frame generation no two jobs of the worker pool
\* write the same frame file path.
C13_JobsWriteDistinctFiles ==
    pc = "generate" =>
        \A i, j \in 1..Len(jobs) : i # j => jobs[i].output # jobs[j].output
\* C15: for every positive strength S and duration N the schedule has N
\* elements, the one at index i (from 0) being (i + 1) * floor(S / N), where
\* floor(S / N) is the q with q * N <= S < (q + 1) * N; strength 20 and
\* duration 4 give 5, 10, 15, 20; the last element is S when N divides S.
C15_ScheduleFormula ==
    pc = "init" =>
        LET S == blurStrength
            N == animationDuration
        IN  /\ Len(animationFrames) = N
            /\ \E q \in 0..S :
                 /\ q * N <= S
                 /\ S < (q + 1) * N
                 /\ \A i \in 0..(N - 1) : animationFrames[i + 1] = (i + 1) * q
            /\ (S = 20 /\ N = 4) => animationFrames = <<5, 10, 15, 20>>
            /\ (S % N = 0) => animationFrames[N] = S

C15_Witness ==
    /\ pc = "init"
    /\ blurStrength = 20
    /\ animationDuration = 4
    /\ animationFrames = <<5, 10, 15, 20>>
\* C16: once constructed, and after every event handled since, the mapping
\* holds a name exactly when the configuration lists it with a non-empty image,
\* and each entry is the Output the constructor made for that name.
C16_MappingFixed ==
    pc \in {"constructed", "listening"} =>
        /\ \A n \in TreeOutputs :
             n \in DOMAIN outputs <=>
                 \E i \in 1..Len(OutputOrder) : OutputOrder[i] = n /\ Image(n) # ""
        /\ DOMAIN outputs \subseteq TreeOutputs
        /\ \A n \in DOMAIN outputs : outputs[n] = Output(n, animationFrames)

C16_Witness ==
    /\ pc = "listening"
    /\ event # NoEvent
    /\ event.output \in TreeOutputs
    /\ event.output \notin DOMAIN outputs
    /\ DOMAIN outputs # {}
\* C17: two outputs configured with the same wallpaper path get the same cached
\* image path and the same ordered frame path list; in a run that finds no
\* cached copy at the first of them, the source content unchanged, frames are
\* generated for the first and none for the second.
C17_SharedWallpaper ==
    /\ \A a, b \in DOMAIN outputs :
         Image(a) = Image(b) =>
             /\ outputs[a].wallpaper = outputs[b].wallpaper
             /\ outputs[a].frames = outputs[b].frames
    /\ (streak = 1 /\ idx = 1 /\ "o1" \in DOMAIN outputs) =>
           (pc = "generate" /\ Len(jobs) = animationDuration)
    /\ (streak = 2 /\ "o2" \in DOMAIN outputs) =>
           (ret = "True" /\ pc # "generate" /\ jobs = <<>>)

C17_Witness ==
    /\ streak = 2
    /\ DOMAIN outputs = {"o1", "o2"}
    /\ idx = 3
    /\ ~filterFailed
    /\ FramesOnDisk
\* C18: a call of verifyWallpaperCache that returns True leaves every path of
\* the cache directory as it was.
C18_HitWritesNothing ==
    [][(VerifyReturns /\ ret' = "True") => cacheDir' = cacheDir]_vars

C18_Witness ==
    /\ pc = "init"
    /\ idx = 2
    /\ ret = "True"
    /\ "o1" \in DOMAIN outputs
    /\ exists(CachedCopy)
\* C19: on a cache miss the jobs submitted for an output have that Output's
\* frame paths in the same order, each job's blur level is the level its path
\* is derived from, every job reads the Output's cached copy, which by then
\* holds the current source's content, and the copy stays as it is while the
\* jobs run.
C19_JobsMatchOutput ==
    [][/\ (VerifyReturns /\ pc' = "generate") =>
            LET name == OutputOrder[idx]
                o == outputs'[name]
            IN  /\ Len(jobs') = Len(o.frames)
                /\ \A i \in 1..Len(jobs') :
                     /\ jobs'[i].output = o.frames[i]
                     /\ jobs'[i].output = framePath(imageHash(name), jobs'[i].blurLevel)
                     /\ jobs'[i].input = o.wallpaper
                     /\ jobs'[i].state = "queued"
                /\ exists(cacheDir'[o.wallpaper])
                /\ cacheDir'[o.wallpaper].content = source.content
       /\ (pc = "generate" /\ pc' = "generate") =>
            \A i \in 1..Len(jobs) : cacheDir'[jobs[i].input] = cacheDir[jobs[i].input]
      ]_vars

C19_Witness ==
    /\ pc = "generate"
    /\ Len(jobs) = 2
    /\ jobs[1].blurLevel # jobs[2].blurLevel
    /\ jobs[1].state = "done"
    /\ jobs[2].state = "queued"
    /\ cacheDir[jobs[2].input].content = source.content
\* C20: every Output method call and every display-sink write an event's
\* handler makes is on the output of the focused workspace; no other output
\* gets a call or a write for that event.
C20_OnlyFocusedOutput ==
    event # NoEvent =>
        /\ \A i \in 1..Len(calls) : calls[i].output = event.output
        /\ \A i \in 1..Len(sink) : sink[i].output = event.output
        /\ Len(calls) <= 1

C20_Witness ==
    /\ event.output = "o2"
    /\ calls = <<[output |-> "o2", method |-> "blur"]>>
    /\ Len(sink) = animationDuration
    /\ lastCall["o1"] = "unblur"
\* C14: events are handled one at a time in the order received: at most one
\* handler activation is under way, the display-sink writes appear in the order
\* of their events' arrival, all writes of one event before any write of the
\* next, and no write is for an event later than the one being handled.
C14_OneEventAtATime ==
    /\ Cardinality(running) <= 1
    /\ \A i, j \in 1..Len(written) : i < j => written[i] <= written[j]
    /\ \A r \in running : \A i \in 1..Len(written) : written[i] <= r.id
    /\ \A r \in running : \A i \in 1..Len(pending) : r.id < pending[i]

C14_Witness ==
    /\ pending # <<>>
    /\ \E r \in running : r.left # <<>> /\ \E i \in 1..Len(written) : written[i] = r.id
    /\ \E i \in 1..Len(written) : \A r \in running : written[i] < r.id
====
